---- MODULE Spec2Model ----
(***************************************************************************)
(* Model of blaspp's src/device_utils.cc: the device/memory bridge that    *)
(* forwards set/get device, device count, device enumeration and the free  *)
(* operations to the backend selected at build time (BLAS_HAVE_CUBLAS,     *)
(* BLAS_HAVE_ROCBLAS, BLAS_HAVE_ONEMKL, or none of them).                  *)
(*                                                                         *)
(* The vendor runtime is modelled by its observable state: the process     *)
(* wide current-device register, the table of live memory handles, and the *)
(* hardware (SYCL platforms, each a list of devices with an is_gpu flag).  *)
(***************************************************************************)
EXTENDS Integers, Sequences, FiniteSets, TLC

\* ---------------------------------------------------------------- bounds
MaxPlatforms == 2       \* platforms the runtime enumerates
MaxDevs      == 2       \* devices per platform
MaxPtr       == 1       \* memory handles 1..MaxPtr
MaxOut       == 3       \* initial length of enumerate_devices' output vector

\* ---------------------------------------------------------------- state
VARIABLES
    backend,     \* build configuration: which BLAS_HAVE_* macro is defined
    driver,      \* health of the vendor runtime: "ok", or "bad" (every call fails)
    platforms,   \* hardware: sequence of platforms, each a sequence of is_gpu flags
    cur,         \* the runtime's process-wide current-device register
    mem,         \* memory handle -> "free" | "device" | "pinned"
    out,         \* the caller's std::vector<sycl::device> given to enumerate_devices
    last,        \* record of the most recent call into this layer
    prev,        \* record of the call before it when that was set_device, else NoCall
    pc,          \* per thread: position inside device_free( ptr, queue )
    targ,        \* per thread: the (ptr, queue) arguments of its call
    issued,      \* per thread: the backend free it issued, with the register it saw
    serialized   \* TRUE when the caller runs the threads' calls one at a time

vars == <<backend, driver, platforms, cur, mem, out, last, prev,
          pc, targ, issued, serialized>>

Backends == {"cublas", "rocblas", "onemkl", "none"}
CudaRocm == {"cublas", "rocblas"}
Ptrs     == 1..MaxPtr
Threads  == {1, 2}

\* ------------------------------------------------------------- hardware
SeqsUpTo(S, n) == UNION {[1..k -> S] : k \in 0..n}

Hardware == SeqsUpTo(SeqsUpTo(BOOLEAN, MaxDevs), MaxPlatforms)

\* machines with at most one platform: all that the CUDA/ROCm runtimes see
\* of the hardware is its number of GPUs
Machines == {hw \in Hardware : Len(hw) <= 1}

\* device.is_gpu() as the integer the code adds to dev_count
is_gpu(flag) == IF flag THEN 1 ELSE 0

\* GPUs of one platform, in device order; a device is <<platform, index>>
RECURSIVE GpusOf(_, _, _)
GpusOf(hw, p, d) ==
    IF d > Len(hw[p]) THEN <<>>
    ELSE (IF hw[p][d] THEN <<(<<p, d>>)>> ELSE <<>>) \o GpusOf(hw, p, d + 1)

\* GPUs of all platforms from platform p on, platform-then-device order
RECURSIVE GpuList(_, _)
GpuList(hw, p) ==
    IF p > Len(hw) THEN <<>> ELSE GpusOf(hw, p, 1) \o GpuList(hw, p + 1)

AllDevices(hw) == {x \in (1..MaxPlatforms) \X (1..MaxDevs) :
                       x[1] <= Len(hw) /\ x[2] <= Len(hw[x[1]])}

NumGpus == Len(GpuList(platforms, 1))

\* ------------------------------------------------------- error messages
Ok                  == ""
UnsupportedBackend  == "unsupported function for sycl backend"
NoBackendConfigured == "device BLAS not available"
UnknownBackend      == "unknown accelerator/gpu"
LayerErrors         == {UnsupportedBackend, NoBackendConfigured, UnknownBackend}

\* --------------------------------------------------- call bookkeeping
St == [cur |-> cur, mem |-> mem]

\* one backend call: the function, its argument, the register when it was
\* issued, and what the runtime reported
Call(fn, arg, st, err) == [fn |-> fn, arg |-> arg, cur |-> st.cur, err |-> err]

Res(st, ret, err, calls) == [st |-> st, ret |-> ret, err |-> err, calls |-> calls]

\* ------------------------------------------------------ vendor runtime
\* cudaSetDevice / hipSetDevice: a valid id becomes the current device
cudaSetDevice(device, st) ==
    LET e == IF driver # "ok" THEN "ErrorUnknown"
             ELSE IF device >= 0 /\ device < NumGpus THEN "Success"
             ELSE "ErrorInvalidDevice"
    IN  [err |-> e, st |-> IF e = "Success" THEN [st EXCEPT !.cur = device] ELSE st]

\* cudaGetDevice / hipGetDevice: writes the register to *dev on success
cudaGetDevice(dev, st) ==
    LET e == IF driver # "ok" THEN "ErrorUnknown"
             ELSE IF NumGpus = 0 THEN "ErrorNoDevice"
             ELSE "Success"
    IN  [err |-> e, dev |-> IF e = "Success" THEN st.cur ELSE dev]

\* cudaGetDeviceCount / hipGetDeviceCount: writes the count on success
cudaGetDeviceCount(dev_count) ==
    LET e == IF driver # "ok" THEN "ErrorUnknown"
             ELSE IF NumGpus = 0 THEN "ErrorNoDevice"
             ELSE "Success"
    IN  [err |-> e, dev_count |-> IF e = "Success" THEN NumGpus ELSE dev_count]

\* cudaFree / hipFree: releases a live device handle
cudaFree(ptr, st) ==
    LET e == IF driver # "ok" THEN "ErrorUnknown"
             ELSE IF st.mem[ptr] = "device" THEN "Success"
             ELSE "ErrorInvalidValue"
    IN  [err |-> e,
         st  |-> IF e = "Success" THEN [st EXCEPT !.mem[ptr] = "free"] ELSE st]

\* cudaFreeHost / hipHostFree: releases a live pinned host handle
cudaFreeHost(ptr, st) ==
    LET e == IF driver # "ok" THEN "ErrorUnknown"
             ELSE IF st.mem[ptr] = "pinned" THEN "Success"
             ELSE "ErrorInvalidValue"
    IN  [err |-> e,
         st  |-> IF e = "Success" THEN [st EXCEPT !.mem[ptr] = "free"] ELSE st]

\* sycl::free( ptr, queue ): releases a live USM handle of either kind
sycl_free(ptr, stream, st) ==
    LET e == IF driver # "ok" THEN "ErrorUnknown"
             ELSE IF st.mem[ptr] # "free" THEN "Success"
             ELSE "ErrorInvalidValue"
    IN  [err |-> e,
         st  |-> IF e = "Success" THEN [st EXCEPT !.mem[ptr] = "free"] ELSE st]

\* blas_dev_call: a runtime error is thrown as blas::Error carrying its text
blas_dev_call(err) == IF err = "Success" THEN Ok ELSE err

\* --------------------------------------------------- the layer's operations
\* Each operation takes the build configuration b, its arguments and the
\* runtime state st, and yields the new runtime state, the value returned
\* (<<>> when none), the error thrown (Ok when none) and the backend calls.

\* void set_device( int device )
set_device(b, device, st) ==
    IF b \in CudaRocm THEN
        LET r == cudaSetDevice(device, st)
        IN  Res(r.st, <<>>, blas_dev_call(r.err),
                <<Call("SetDevice", device, st, r.err)>>)
    ELSE IF b = "onemkl" THEN
        Res(st, <<>>, "unsupported function for sycl backend", <<>>)
    ELSE
        Res(st, <<>>, "device BLAS not available", <<>>)

\* internal_set_device with the SYCL branch throwing as set_device does
internal_set_device_throws(b, device, st) ==
    IF b \in CudaRocm THEN
        LET r == cudaSetDevice(device, st)
        IN  Res(r.st, <<>>, blas_dev_call(r.err),
                <<Call("SetDevice", device, st, r.err)>>)
    ELSE IF b = "onemkl" THEN
        Res(st, <<>>, "unsupported function for sycl backend", <<>>)
    ELSE
        Res(st, <<>>, "unknown accelerator/gpu", <<>>)

\* void internal_set_device( int device )
internal_set_device(b, device, st) ==
    IF b \in CudaRocm THEN
        LET r == cudaSetDevice(device, st)
        IN  Res(r.st, <<>>, blas_dev_call(r.err),
                <<Call("SetDevice", device, st, r.err)>>)
    ELSE IF b = "onemkl" THEN
        Res(st, <<>>, Ok, <<>>)
    ELSE
        Res(st, <<>>, "unknown accelerator/gpu", <<>>)

\* get_device with (*device) = dev moved before the runtime call
get_device_unset(b, st) ==
    IF b \in CudaRocm THEN
        LET r == cudaGetDevice(-1, st)
            e == blas_dev_call(r.err)
        IN  Res(st, IF e = Ok THEN <<-1>> ELSE <<>>, e,
                <<Call("GetDevice", 0, st, r.err)>>)
    ELSE IF b = "onemkl" THEN
        Res(st, <<>>, "unsupported function for sycl backend", <<>>)
    ELSE
        Res(st, <<>>, "device BLAS not available", <<>>)

\* void get_device( int *device )
get_device(b, st) ==
    IF b \in CudaRocm THEN
        LET r == cudaGetDevice(-1, st)
            e == blas_dev_call(r.err)
        IN  Res(st, IF e = Ok THEN <<r.dev>> ELSE <<>>, e,
                <<Call("GetDevice", 0, st, r.err)>>)
    ELSE IF b = "onemkl" THEN
        Res(st, <<>>, "unsupported function for sycl backend", <<>>)
    ELSE
        Res(st, <<>>, "device BLAS not available", <<>>)

\* the SYCL branch of get_device_count: dev_count += device.is_gpu()
RECURSIVE CountGpus(_, _, _)
CountGpus(hw, p, d) ==
    IF p > Len(hw) THEN 0
    ELSE IF d > Len(hw[p]) THEN CountGpus(hw, p + 1, 1)
    ELSE is_gpu(hw[p][d]) + CountGpus(hw, p, d + 1)

\* get_device_count without the exemption for the "no device" report
get_device_count_strict(b, st) ==
    IF b \in CudaRocm THEN
        LET r == cudaGetDeviceCount(0)
            c == <<Call("GetDeviceCount", 0, st, r.err)>>
        IN  IF r.err # "Success"
            THEN Res(st, <<>>, blas_dev_call(r.err), c)
            ELSE Res(st, <<r.dev_count>>, Ok, c)
    ELSE IF b = "onemkl" THEN
        Res(st, <<CountGpus(platforms, 1, 1)>>, Ok,
            <<Call("get_platforms", 0, st, "Success")>>)
    ELSE
        Res(st, <<0>>, Ok, <<>>)

\* device_blas_int get_device_count()
get_device_count(b, st) ==
    IF b \in CudaRocm THEN
        LET r == cudaGetDeviceCount(0)
            c == <<Call("GetDeviceCount", 0, st, r.err)>>
        IN  IF r.err # "Success" /\ r.err # "ErrorNoDevice"
            THEN Res(st, <<>>, blas_dev_call(r.err), c)
            ELSE Res(st, <<r.dev_count>>, Ok, c)
    ELSE IF b = "onemkl" THEN
        Res(st, <<CountGpus(platforms, 1, 1)>>, Ok,
            <<Call("get_platforms", 0, st, "Success")>>)
    ELSE
        Res(st, <<0>>, Ok, <<>>)

\* void enumerate_devices( std::vector<sycl::device> &devices ), SYCL only:
\* the vector is cleared only when its size differs from the device count,
\* then every GPU is pushed back
enumerate_devices(devices, st) ==
    LET dev_count == get_device_count("onemkl", st).ret[1]
        kept      == IF Len(devices) # dev_count THEN <<>> ELSE devices
    IN  kept \o GpuList(platforms, 1)

\* device_free( ptr ) with the SYCL branch left empty
device_free_silent(b, ptr, st) ==
    IF b \in CudaRocm THEN
        LET r == cudaFree(ptr, st)
        IN  Res(r.st, <<>>, blas_dev_call(r.err), <<Call("Free", ptr, st, r.err)>>)
    ELSE IF b = "onemkl" THEN
        Res(st, <<>>, Ok, <<>>)
    ELSE
        Res(st, <<>>, "device BLAS not available", <<>>)

\* void device_free( void* ptr )
device_free(b, ptr, st) ==
    IF b \in CudaRocm THEN
        LET r == cudaFree(ptr, st)
        IN  Res(r.st, <<>>, blas_dev_call(r.err), <<Call("Free", ptr, st, r.err)>>)
    ELSE IF b = "onemkl" THEN
        Res(st, <<>>, "unsupported function for sycl backend", <<>>)
    ELSE
        Res(st, <<>>, "device BLAS not available", <<>>)

\* device_free( ptr, queue ) with the internal_set_device call left out
device_free_set_skip(b, queue, st) == Res(st, <<>>, Ok, <<>>)

\* first statement of device_free( ptr, queue ) on CUDA/ROCm:
\* blas::internal_set_device( queue.device() )
device_free_set(b, queue, st) == internal_set_device(b, queue.device, st)

\* second statement of device_free( ptr, queue ): the backend free
device_free_free(b, ptr, queue, st) ==
    IF b \in CudaRocm THEN
        LET r == cudaFree(ptr, st)
        IN  Res(r.st, <<>>, blas_dev_call(r.err), <<Call("Free", ptr, st, r.err)>>)
    ELSE
        LET r == sycl_free(ptr, queue.stream, st)
        IN  Res(r.st, <<>>, blas_dev_call(r.err),
                <<Call("sycl::free", ptr, st, r.err)>>)

\* device_free( ptr, queue ) freeing before it sets the device
device_free_q_freefirst(b, ptr, queue, st) ==
    IF b \in CudaRocm THEN
        LET f == device_free_free(b, ptr, queue, st)
        IN  IF f.err # Ok THEN f
            ELSE LET s == device_free_set(b, queue, f.st)
                 IN  Res(s.st, <<>>, s.err, f.calls \o s.calls)
    ELSE IF b = "onemkl" THEN
        device_free_free(b, ptr, queue, st)
    ELSE
        Res(st, <<>>, Ok, <<>>)

\* void device_free( void* ptr, blas::Queue &queue ); there is no #else
\* branch: with no backend the body is empty
device_free_q(b, ptr, queue, st) ==
    IF b \in CudaRocm THEN
        LET s == device_free_set(b, queue, st)
        IN  IF s.err # Ok THEN s
            ELSE LET f == device_free_free(b, ptr, queue, s.st)
                 IN  Res(f.st, <<>>, f.err, s.calls \o f.calls)
    ELSE IF b = "onemkl" THEN
        device_free_free(b, ptr, queue, st)
    ELSE
        Res(st, <<>>, Ok, <<>>)

\* host_free_pinned( ptr ) throwing the SYCL message with no backend
host_free_pinned_wrongmsg(b, ptr, st) ==
    IF b \in CudaRocm THEN
        LET r == cudaFreeHost(ptr, st)
        IN  Res(r.st, <<>>, blas_dev_call(r.err),
                <<Call("FreeHost", ptr, st, r.err)>>)
    ELSE
        Res(st, <<>>, "unsupported function for sycl backend", <<>>)

\* void host_free_pinned( void* ptr )
host_free_pinned(b, ptr, st) ==
    IF b \in CudaRocm THEN
        LET r == cudaFreeHost(ptr, st)
        IN  Res(r.st, <<>>, blas_dev_call(r.err),
                <<Call("FreeHost", ptr, st, r.err)>>)
    ELSE IF b = "onemkl" THEN
        Res(st, <<>>, "unsupported function for sycl backend", <<>>)
    ELSE
        Res(st, <<>>, "device BLAS not available", <<>>)

\* host_free_pinned( ptr, queue ) setting the queue's device first, as
\* device_free( ptr, queue ) does
host_free_pinned_q_setdev(b, ptr, queue, st) ==
    IF b \in CudaRocm THEN
        LET s == internal_set_device(b, queue.device, st)
        IN  IF s.err # Ok THEN s
            ELSE LET r == cudaFreeHost(ptr, s.st)
                 IN  Res(r.st, <<>>, blas_dev_call(r.err),
                         s.calls \o <<Call("FreeHost", ptr, s.st, r.err)>>)
    ELSE IF b = "onemkl" THEN
        LET r == sycl_free(ptr, queue.stream, st)
        IN  Res(r.st, <<>>, blas_dev_call(r.err),
                <<Call("sycl::free", ptr, st, r.err)>>)
    ELSE
        Res(st, <<>>, "device BLAS not available", <<>>)

\* void host_free_pinned( void* ptr, blas::Queue &queue )
host_free_pinned_q(b, ptr, queue, st) ==
    IF b \in CudaRocm THEN
        LET r == cudaFreeHost(ptr, st)
        IN  Res(r.st, <<>>, blas_dev_call(r.err),
                <<Call("FreeHost", ptr, st, r.err)>>)
    ELSE IF b = "onemkl" THEN
        LET r == sycl_free(ptr, queue.stream, st)
        IN  Res(r.st, <<>>, blas_dev_call(r.err),
                <<Call("sycl::free", ptr, st, r.err)>>)
    ELSE
        Res(st, <<>>, "device BLAS not available", <<>>)

\* ------------------------------------------------------------- inputs
\* device identifiers passed in: every valid one and one invalid on each side
DeviceArgs == (0 - 1)..NumGpus

\* queues that exist: one per GPU, its stream handle tied to its device
Queues == {[device |-> d, stream |-> d] : d \in 0..(NumGpus - 1)}

NoCall == [op |-> "", args |-> <<>>, ret |-> <<>>, err |-> Ok, calls |-> <<>>,
           cur |-> 0]

Rec(op, args, r) == [op |-> op, args |-> args, ret |-> r.ret, err |-> r.err,
                     calls |-> r.calls, cur |-> r.st.cur]

\* what is remembered of the call before the most recent one
Before == IF last.op = "set_device" THEN last ELSE NoCall

\* a call into the layer: the runtime moves to r.st and the call is recorded
Apply(op, args, r) ==
    /\ cur' = r.st.cur
    /\ mem' = r.st.mem
    /\ last' = Rec(op, args, r)
    /\ prev' = Before
    /\ UNCHANGED <<backend, driver, platforms, out, pc, targ, issued, serialized>>

NoThreads == [t \in Threads |-> "idle"]
NoTarg    == [t \in Threads |-> [ptr |-> 1, queue |-> [device |-> 0, stream |-> 0]]]
NoIssued  == [t \in Threads |-> <<>>]

\* ------------------------------------------- single-threaded use of the API
Init ==
    /\ backend \in Backends
    /\ driver \in {"ok", "bad"}
    /\ platforms \in Machines
    /\ cur \in {d \in 0..(MaxPlatforms * MaxDevs) : d = 0 \/ d < NumGpus}
    /\ mem \in [Ptrs -> {"free", "device", "pinned"}]
    /\ out = <<>>
    /\ last = NoCall
    /\ prev = NoCall
    /\ pc = NoThreads
    /\ targ = NoTarg
    /\ issued = NoIssued
    /\ serialized = TRUE

SetDevice ==
    \E device \in DeviceArgs :
        Apply("set_device", <<device>>, set_device(backend, device, St))

InternalSetDevice ==
    \E device \in DeviceArgs :
        Apply("internal_set_device", <<device>>,
              internal_set_device(backend, device, St))

GetDevice == Apply("get_device", <<>>, get_device(backend, St))

GetDeviceCount == Apply("get_device_count", <<>>, get_device_count(backend, St))

DeviceFree ==
    \E ptr \in Ptrs :
        Apply("device_free", <<ptr>>, device_free(backend, ptr, St))

DeviceFreeQ ==
    \E ptr \in Ptrs, queue \in Queues :
        Apply("device_free_q", <<ptr, queue.device, queue.stream>>,
              device_free_q(backend, ptr, queue, St))

HostFreePinned ==
    \E ptr \in Ptrs :
        Apply("host_free_pinned", <<ptr>>, host_free_pinned(backend, ptr, St))

HostFreePinnedQ ==
    \E ptr \in Ptrs, queue \in Queues :
        Apply("host_free_pinned_q", <<ptr, queue.device, queue.stream>>,
              host_free_pinned_q(backend, ptr, queue, St))

Next ==
    \/ SetDevice
    \/ InternalSetDevice
    \/ GetDevice
    \/ GetDeviceCount
    \/ DeviceFree
    \/ DeviceFreeQ
    \/ HostFreePinned
    \/ HostFreePinnedQ

Spec == Init /\ [][Next]_vars

\* -------------------------------------------- SYCL device enumeration
InitEnum ==
    /\ backend = "onemkl"
    /\ driver = "ok"
    /\ platforms \in Hardware
    /\ cur = 0
    /\ mem \in [Ptrs -> {"free", "device", "pinned"}]
    /\ out \in SeqsUpTo(AllDevices(platforms), MaxOut)
    /\ last = NoCall
    /\ prev = NoCall
    /\ pc = NoThreads
    /\ targ = NoTarg
    /\ issued = NoIssued
    /\ serialized = TRUE

EnumerateDevices ==
    /\ backend = "onemkl"
    /\ out' = enumerate_devices(out, St)
    /\ last' = [op |-> "enumerate_devices", args |-> <<Len(out)>>, ret |-> <<>>,
                err |-> Ok,
                calls |-> get_device_count(backend, St).calls
                            \o <<Call("get_platforms", 0, St, "Success")>>,
                cur |-> cur]
    /\ prev' = Before
    /\ UNCHANGED <<backend, driver, platforms, cur, mem, pc, targ, issued, serialized>>

NextEnum ==
    \/ EnumerateDevices
    \/ GetDeviceCount

SpecEnum == InitEnum /\ [][NextEnum]_vars

\* ------------------------- two threads inside device_free( ptr, queue )
InitConc ==
    /\ backend \in CudaRocm
    /\ driver \in {"ok", "bad"}
    /\ platforms \in Machines
    /\ cur \in {d \in 0..(MaxPlatforms * MaxDevs) : d = 0 \/ d < NumGpus}
    /\ mem \in [Ptrs -> {"free", "device", "pinned"}]
    /\ out = <<>>
    /\ last = NoCall
    /\ prev = NoCall
    /\ pc = NoThreads
    /\ targ = NoTarg
    /\ issued = NoIssued
    /\ serialized \in BOOLEAN

Finished(t) == pc[t] \in {"idle", "done", "raised"}

\* thread t enters device_free( ptr, queue ); a serializing caller lets it in
\* only when no other thread is inside the call
Begin(t) ==
    /\ pc[t] = "idle"
    /\ serialized => \A u \in Threads \ {t} : Finished(u)
    /\ \E ptr \in Ptrs, queue \in Queues :
          targ' = [targ EXCEPT ![t] = [ptr |-> ptr, queue |-> queue]]
    /\ pc' = [pc EXCEPT ![t] = "set"]
    /\ UNCHANGED <<backend, driver, platforms, cur, mem, out, last, prev,
                   issued, serialized>>

\* thread t runs blas::internal_set_device( queue.device() )
StepSet(t) ==
    /\ pc[t] = "set"
    /\ LET r == device_free_set(backend, targ[t].queue, St)
       IN  /\ cur' = r.st.cur
           /\ mem' = r.st.mem
           /\ pc' = [pc EXCEPT ![t] = IF r.err # Ok THEN "raised" ELSE "free"]
    /\ UNCHANGED <<backend, driver, platforms, out, last, prev, targ, issued,
                   serialized>>

\* thread t runs blas_dev_call( cudaFree( ptr ) )
StepFree(t) ==
    /\ pc[t] = "free"
    /\ LET r == device_free_free(backend, targ[t].ptr, targ[t].queue, St)
       IN  /\ cur' = r.st.cur
           /\ mem' = r.st.mem
           /\ issued' = [issued EXCEPT ![t] = r.calls]
           /\ pc' = [pc EXCEPT ![t] = IF r.err # Ok THEN "raised" ELSE "done"]
    /\ UNCHANGED <<backend, driver, platforms, out, last, prev, targ, serialized>>

NextConc ==
    \E t \in Threads :
        \/ Begin(t)
        \/ StepSet(t)
        \/ StepFree(t)

SpecConc == InitConc /\ [][NextConc]_vars

\* ================================================================ claims
Deprecated == {"set_device", "get_device", "device_free", "host_free_pinned"}

ValidId(id) == id >= 0 /\ id < NumGpus

\* C1: on a CUDA or ROCm build with a working runtime, set_device(id) with a
\* valid id succeeds, a get_device() that follows it returns id, and a second
\* set_device(id) leaves the current device where the first one left it.
C1_SetGetRoundTrip ==
    (/\ backend \in CudaRocm
     /\ driver = "ok"
     /\ prev.op = "set_device"
     /\ ValidId(prev.args[1]))
    => /\ prev.err = Ok
       /\ prev.cur = prev.args[1]
       /\ last.op = "get_device" =>
             last.err = Ok /\ last.ret = <<prev.args[1]>>
       /\ (last.op = "set_device" /\ last.args = prev.args) =>
             last.err = Ok /\ last.cur = prev.cur /\ cur = prev.args[1]

\* a get_device() returned the nonzero id that the set_device before it set,
\* the register having held another value before
C1_Witness ==
    /\ backend \in CudaRocm
    /\ prev.op = "set_device"
    /\ prev.err = Ok
    /\ prev.args[1] >= 1
    /\ prev.calls[1].cur # prev.args[1]
    /\ last.op = "get_device"
    /\ last.ret = prev.args

\* C2: on a SYCL build every call of set_device, get_device, device_free(ptr)
\* and host_free_pinned(ptr) throws "unsupported function for sycl backend",
\* returns nothing, issues no backend call and changes no state.
C2_SyclDeprecatedThrow ==
    [][(backend = "onemkl" /\ last'.op \in Deprecated)
        => /\ last'.err = UnsupportedBackend
           /\ last'.ret = <<>>
           /\ last'.calls = <<>>
           /\ cur' = cur
           /\ mem' = mem
           /\ out' = out]_vars

\* device_free(ptr) of a live device handle was refused on a SYCL build
C2_Witness ==
    /\ backend = "onemkl"
    /\ last.op = "device_free"
    /\ last.err = UnsupportedBackend
    /\ mem[last.args[1]] = "device"

\* C3: with no backend, get_device_count() returns 0 without error, and the
\* four deprecated operations throw "device BLAS not available", which is not
\* the error the same operation throws on a SYCL build.
C3_NoBackend ==
    backend = "none" =>
       /\ last.op = "get_device_count" => last.err = Ok /\ last.ret = <<0>>
       /\ last.op \in Deprecated => last.err = NoBackendConfigured
       /\ last.op = "set_device" =>
             last.err # set_device("onemkl", last.args[1], St).err
       /\ last.op = "get_device" =>
             last.err # get_device("onemkl", St).err
       /\ last.op = "device_free" =>
             last.err # device_free("onemkl", last.args[1], St).err
       /\ last.op = "host_free_pinned" =>
             last.err # host_free_pinned("onemkl", last.args[1], St).err

\* with no backend and GPUs in the machine, set_device(0) threw
C3_Witness ==
    /\ backend = "none"
    /\ NumGpus >= 1
    /\ last.op = "set_device"
    /\ last.args = <<0>>
    /\ last.err = NoBackendConfigured

\* C4: after enumerate_devices(out) on a SYCL build, whatever out held before,
\* out has get_device_count() elements, all of them GPUs, in platform-then-
\* device order with none repeated.
C4_EnumerateMatchesCount ==
    last.op = "enumerate_devices" =>
       /\ Len(out) = get_device_count(backend, St).ret[1]
       /\ \A i \in 1..Len(out) : platforms[out[i][1]][out[i][2]]
       /\ out = GpuList(platforms, 1)

\* C5: get_device_count() never returns a negative count; on CUDA and ROCm a
\* "no device" report gives 0 without an error, success gives the runtime's
\* count, and any other report is thrown instead of a count being returned.
C5_DeviceCount ==
    last.op = "get_device_count" =>
       /\ last.err = Ok => Len(last.ret) = 1 /\ last.ret[1] >= 0
       /\ backend \in CudaRocm =>
             /\ Len(last.calls) = 1
             /\ last.calls[1].fn = "GetDeviceCount"
             /\ last.calls[1].err = "ErrorNoDevice" =>
                   last.err = Ok /\ last.ret = <<0>>
             /\ last.calls[1].err = "Success" =>
                   last.err = Ok /\ last.ret = <<NumGpus>>
             /\ last.calls[1].err \notin {"Success", "ErrorNoDevice"} =>
                   last.err # Ok /\ last.ret = <<>>

\* the runtime reported "no device" and get_device_count() returned 0
C5_Witness ==
    /\ backend \in CudaRocm
    /\ last.op = "get_device_count"
    /\ last.calls[1].err = "ErrorNoDevice"
    /\ last.err = Ok
    /\ last.ret = <<0>>

\* C6: every call either forwards to a backend call, or throws the
\* unsupported-on-SYCL error, or throws the no-backend error (which for
\* internal_set_device is the unknown-backend message, see C7), exactly one
\* of the three; the only calls that return normally without a backend call
\* are internal_set_device on SYCL and get_device_count with no backend.
C6_ResolvesToOneOfThree ==
    last.op \notin {"", "enumerate_devices"} =>
       /\ \/ last.calls # <<>> /\ last.err \notin LayerErrors
          \/ last.calls = <<>> /\ last.err = UnsupportedBackend
          \/ last.calls = <<>> /\ last.err = NoBackendConfigured
          \/ /\ last.calls = <<>>
             /\ last.err = UnknownBackend
             /\ last.op = "internal_set_device"
             /\ backend = "none"
          \/ last.calls = <<>> /\ last.err = Ok
       /\ (last.calls = <<>> /\ last.err = Ok) =>
             \/ last.op = "internal_set_device" /\ backend = "onemkl"
             \/ last.op = "get_device_count" /\ backend = "none"

\* C7 as stated: internal_set_device(id) succeeds for every id on CUDA, ROCm
\* and SYCL builds, fails only with no backend (with the unknown-backend
\* error), and on SYCL issues no backend call.
C7_AlwaysSucceeds ==
    last.op = "internal_set_device" =>
       /\ backend # "none" => last.err = Ok
       /\ last.err # Ok => backend = "none" /\ last.err = UnknownBackend
       /\ backend = "onemkl" => last.calls = <<>>

\* C7 amended: internal_set_device(id) on CUDA and ROCm forwards id to the
\* runtime's set-device call and succeeds exactly when that call does (always
\* for a valid id on a working runtime, making id current), throwing the
\* runtime's error otherwise; on SYCL it succeeds for every id, issuing no
\* backend call and changing no state; it throws the unknown-backend error
\* exactly on a build with no backend.
C7_SucceedsIffRuntimeDoes ==
    [][(last'.op = "internal_set_device")
        => /\ backend \in CudaRocm =>
                 /\ Len(last'.calls) = 1
                 /\ last'.calls[1].fn = "SetDevice"
                 /\ last'.calls[1].arg = last'.args[1]
                 /\ last'.err = Ok <=> last'.calls[1].err = "Success"
                 /\ last'.err \notin LayerErrors
                 /\ (driver = "ok" /\ ValidId(last'.args[1])) =>
                       last'.err = Ok /\ cur' = last'.args[1]
                 /\ last'.err # Ok => cur' = cur
           /\ backend = "onemkl" =>
                 /\ last'.err = Ok
                 /\ last'.calls = <<>>
                 /\ cur' = cur
                 /\ mem' = mem
           /\ last'.err = UnknownBackend <=> backend = "none"]_vars

\* on a working CUDA or ROCm runtime internal_set_device threw the runtime's
\* invalid-device error for an id outside the device range
C7_Witness ==
    /\ backend \in CudaRocm
    /\ driver = "ok"
    /\ last.op = "internal_set_device"
    /\ ~ValidId(last.args[1])
    /\ last.err = "ErrorInvalidDevice"

\* C8: on CUDA and ROCm, device_free(ptr, queue) first sets the current device
\* to queue.device(); the free is issued second, for ptr, with the register
\* equal to queue.device(); when setting the device fails the call throws with
\* no free issued and the handle table untouched.
C8_SetThenFree ==
    [][(backend \in CudaRocm /\ last'.op = "device_free_q")
        => /\ last'.calls[1].fn = "SetDevice"
           /\ last'.calls[1].arg = last'.args[2]
           /\ last'.calls[1].err # "Success" =>
                 /\ Len(last'.calls) = 1
                 /\ last'.err # Ok
                 /\ mem' = mem
           /\ last'.calls[1].err = "Success" =>
                 /\ Len(last'.calls) = 2
                 /\ last'.calls[2].fn = "Free"
                 /\ last'.calls[2].arg = last'.args[1]
           /\ \A i \in 1..Len(last'.calls) :
                 last'.calls[i].fn = "Free" =>
                    i = 2 /\ last'.calls[i].cur = last'.args[2]]_vars

\* device_free(ptr, queue) moved the register to the queue's device and the
\* free was issued there
C8_Witness ==
    /\ backend \in CudaRocm
    /\ last.op = "device_free_q"
    /\ last.err = Ok
    /\ Len(last.calls) = 2
    /\ last.calls[1].cur # last.args[2]
    /\ last.calls[2].cur = last.args[2]
    /\ mem[last.args[1]] = "free"

\* C9: on CUDA and ROCm only set_device, internal_set_device and
\* device_free(ptr, queue) change the current device; the other operations
\* leave it alone whether they succeed or throw; host_free_pinned(ptr, queue)
\* does the same whatever queue.device() is; after a successful
\* device_free(ptr, queue) the current device is queue.device().
C9_RegisterFrame ==
    [][(backend \in CudaRocm)
        => /\ cur' # cur =>
                 last'.op \in {"set_device", "internal_set_device", "device_free_q"}
           /\ last'.op \in {"get_device", "get_device_count", "device_free",
                            "host_free_pinned", "host_free_pinned_q"} => cur' = cur
           /\ last'.op = "host_free_pinned_q" =>
                 /\ \A i \in 1..Len(last'.calls) : last'.calls[i].fn # "SetDevice"
                 /\ \A d \in DeviceArgs :
                       LET r == host_free_pinned_q(backend, last'.args[1],
                                   [device |-> d, stream |-> last'.args[3]], St)
                       IN  /\ r.st.cur = cur'
                           /\ r.st.mem = mem'
                           /\ r.err = last'.err
                           /\ r.calls = last'.calls
           /\ (last'.op = "device_free_q" /\ last'.err = Ok) =>
                 cur' = last'.args[2]]_vars

\* a successful host_free_pinned(ptr, queue) for a queue on a device other
\* than the current one left the register where it was
C9_Witness ==
    /\ backend \in CudaRocm
    /\ last.op = "host_free_pinned_q"
    /\ last.err = Ok
    /\ last.calls[1].cur # last.args[2]
    /\ cur = last.calls[1].cur
    /\ mem[last.args[1]] = "free"

\* C10: with two threads in device_free(ptr, queue), a free is issued with the
\* register equal to its own queue's device, or else the calls were not
\* serialized and the register holds the device of the other thread's queue,
\* which that thread has set in between; calls serialized by the caller always
\* free on their own queue's device.
C10_FreeOnOwnDeviceWhenSerialized ==
    \A t \in Threads :
        issued[t] # <<>> =>
           \/ issued[t][1].cur = targ[t].queue.device
           \/ /\ ~serialized
              /\ \E u \in Threads \ {t} :
                    /\ pc[u] \in {"free", "done", "raised"}
                    /\ issued[t][1].cur = targ[u].queue.device

\* two unserialized calls on queues of different devices interleaved so that
\* one thread's free was issued while the other thread's device was current
C10_Witness ==
    /\ ~serialized
    /\ \E t \in Threads, u \in Threads :
          /\ t # u
          /\ issued[t] # <<>>
          /\ issued[t][1].fn = "Free"
          /\ targ[t].queue.device # targ[u].queue.device
          /\ issued[t][1].cur = targ[u].queue.device

====
